---- MODULE Spec2Model ----
(***************************************************************************)
(* A model of the typeclass combinators of @fp-ts/core:                    *)
(*   src/typeclass/Semigroup.ts  and  src/typeclass/Covariant.ts.          *)
(*                                                                         *)
(* The library is a set of pure functions over instance records whose      *)
(* fields are closures.  A closure is modelled by a record holding a tag   *)
(* (which closure body it is) and the variables it captured; `combine`,    *)
(* `combineMany`, `compare` and `Call` apply such a record by running the  *)
(* body the tag names.  The state of the model is the last call that was   *)
(* in progress: its name, the type A of its instance, its arguments and    *)
(* the value it returned; the caller makes one call at a time and takes    *)
(* the result before the next.  The arguments and the result are stored    *)
(* under the name of their type (args[type], out[type]), so that two       *)
(* states never set a string against a number or a record.                 *)
(***************************************************************************)
EXTENDS Integers, Sequences, FiniteSets, TLC

VARIABLES op, type, args, out

vars == <<op, type, args, out>>

(***************************************************************************)
(* Bounds of the explored inputs.                                          *)
(***************************************************************************)
MaxLen == 3        \* longest collection handed to combineMany
MaxNum == 2        \* numbers are drawn from 1..MaxNum
MaxId == 2         \* distinct objects carrying the same sort key
MaxNest == 2       \* longest array handed to map
MaxArity == 2      \* longest collection of instances handed to productMany / productAll

Str == {"a", "b", "c", "d"}
Name == {"a", "b"}
Num == 1..MaxNum
Key == {1, 2}
Item == [a : Key, id : 1..MaxId]

Box(t, value) == [k \in {t} |-> value]

RECURSIVE SeqsUpTo(_, _)
SeqsUpTo(D, n) ==
  IF n = 0 THEN {<<>>}
  ELSE LET shorter == SeqsUpTo(D, n - 1)
       IN  shorter \cup {Append(xs, x) : xs \in {ys \in shorter : Len(ys) = n - 1}, x \in D}

(***************************************************************************)
(* Iterables.  A collection is an Array or a Set; both are iterated in     *)
(* insertion order.                                                        *)
(***************************************************************************)
ArrayOf(items) == [kind |-> "Array", items |-> items]
SetOf(items) == [kind |-> "Set", items |-> items]
Iterate(collection) == collection.items
Array_isArray(collection) == collection.kind = "Array"
Array_from(collection) == ArrayOf(Iterate(collection))
Array_reverse(array) ==
  ArrayOf([i \in 1..Len(array.items) |-> array.items[Len(array.items) + 1 - i]])
Array_slice(array, start) ==
  ArrayOf(SubSeq(array.items, start + 1, Len(array.items)))

Arrays(D) == {ArrayOf(items) : items \in SeqsUpTo(D, MaxLen)}
Sets(D) == {SetOf(items) : items \in SeqsUpTo(D, MaxLen)}

RECURSIVE combine(_, _, _), combineMany(_, _, _), compare(_, _, _), Call(_, _)
RECURSIVE Covariant_map_apply(_, _, _)

Array_map(array, fn) ==
  ArrayOf([i \in 1..Len(array.items) |-> Call(fn, array.items[i])])

(***************************************************************************)
(* Fixtures of the test suite: the function `identity`, the isomorphism    *)
(* s => [s] / [s] => s, the string and number semigroups and orders.       *)
(***************************************************************************)
identity == [tag |-> "identity"]
wrap == [tag |-> "wrap"]
unwrap == [tag |-> "unwrap"]

string_combine(that, self) == self \o that
numberSum_combine(that, self) == self + that

StringSemigroup == [tag |-> "fromCombine", combine |-> "string"]
SemigroupSum == [tag |-> "fromCombine", combine |-> "sum"]

numberOrder == [tag |-> "number"]
contramap(O, f) == [tag |-> "contramap", O |-> O, f |-> f]

number_compare(that, self) == IF self < that THEN -1 ELSE IF self > that THEN 1 ELSE 0
contramap_compare(O, f, that, self) == compare(O, Call(f, that), Call(f, self))

\* string.Order on the strings "a" < "b"
stringOrder == [tag |-> "string"]
string_compare(that, self) ==
  LET rank == [n \in Name |-> IF n = "a" THEN 1 ELSE 2]
  IN  number_compare(rank[that], rank[self])

\* Order.getSemigroup / Order.getMonoid: the order that compares by `self`
\* and, when `self` reports 0, by `that` (by each order of the collection
\* in turn); `empty` and Product.of(a) report 0 for every pair.
getSemigroup_combine(that, self) == [tag |-> "Order.combine", self |-> self, that |-> that]
getSemigroup_combineMany(collection, self) ==
  [tag |-> "Order.combineMany", self |-> self, collection |-> collection]
getMonoid_empty == [tag |-> "Order.empty"]
Order_of(a) == [tag |-> "Order.of", a |-> a]

getSemigroup_combine_compare_thatFirst(O1, O2, a2, a1) ==
  IF compare(O2, a2, a1) # 0 THEN compare(O2, a2, a1) ELSE compare(O1, a2, a1)
getSemigroup_combine_compare(O1, O2, a2, a1) ==
  IF compare(O1, a2, a1) # 0 THEN compare(O1, a2, a1) ELSE compare(O2, a2, a1)

RECURSIVE getSemigroup_loop(_, _, _, _)
getSemigroup_loop(orders, a2, a1, acc) ==
  IF orders = <<>> THEN acc
  ELSE IF compare(Head(orders), a2, a1) # 0 THEN compare(Head(orders), a2, a1)
  ELSE getSemigroup_loop(Tail(orders), a2, a1, compare(Head(orders), a2, a1))

getSemigroup_combineMany_compare(self, collection, a2, a1) ==
  IF compare(self, a2, a1) # 0 THEN compare(self, a2, a1)
  ELSE getSemigroup_loop(Iterate(collection), a2, a1, compare(self, a2, a1))

compare(O, that, self) ==
  CASE O.tag = "number" -> number_compare(that, self)
    [] O.tag = "string" -> string_compare(that, self)
    [] O.tag = "contramap" -> contramap_compare(O.O, O.f, that, self)
    [] O.tag = "Order.combine" -> getSemigroup_combine_compare(O.self, O.that, that, self)
    [] O.tag = "Order.combineMany" ->
         getSemigroup_combineMany_compare(O.self, O.collection, that, self)
    [] O.tag \in {"Order.empty", "Order.of"} -> 0

(***************************************************************************)
(* Semigroup.ts                                                            *)
(***************************************************************************)
RECURSIVE fromCombine_loop(_, _, _)
fromCombine_loop(S, items, acc) ==
  IF items = <<>> THEN acc
  ELSE fromCombine_loop(S, Tail(items), combine(S, Head(items), acc))

fromCombine_combineMany(S, collection, self) ==
  fromCombine_loop(S, Iterate(collection), self)

fromCombine_combine(name, that, self) ==
  CASE name = "string" -> string_combine(that, self)
    [] name = "sum" -> numberSum_combine(that, self)

min(O) == [tag |-> "min", O |-> O]
min_combine_tieSelf(O, that, self) == IF compare(O, that, self) # 1 THEN self ELSE that
min_combine(O, that, self) == IF compare(O, that, self) = -1 THEN self ELSE that

max(O) == [tag |-> "max", O |-> O]
max_combine_firstMaximum(O, that, self) == IF compare(O, that, self) # -1 THEN self ELSE that
max_combine(O, that, self) == IF compare(O, that, self) = 1 THEN self ELSE that

constant(a) == [tag |-> "constant", a |-> a]
constant_combine(a, that, self) == a
constant_combineMany(a, collection, self) == a

reverse(S) == [tag |-> "reverse", S |-> S]
reverse_combine_notFlipped(S, that, self) == combine(S, that, self)
reverse_combine(S, that, self) == combine(S, self, that)
reverse_combineMany_notReversed(S, collection, self) ==
  LET reversed == Array_from(collection)
  IN  IF Len(reversed.items) > 0
      THEN combine(S, self, combineMany(S, Array_slice(reversed, 1), reversed.items[1]))
      ELSE self
reverse_combineMany(S, collection, self) ==
  LET reversed == Array_reverse(Array_from(collection))
  IN  IF Len(reversed.items) > 0
      THEN combine(S, self, combineMany(S, Array_slice(reversed, 1), reversed.items[1]))
      ELSE self

\* `semigroups` is an object: its own properties and the enumerable
\* properties it inherits, which for..in enumerates as well.
struct(semigroups) == [tag |-> "struct", semigroups |-> semigroups]
ForIn(object) == DOMAIN object.own \cup DOMAIN object.inherited
hasOwnProperty(object, k) == k \in DOMAIN object.own
GetProperty(object, k) ==
  IF k \in DOMAIN object.own THEN object.own[k] ELSE object.inherited[k]
struct_combine(semigroups, that, self) ==
  [k \in {j \in ForIn(semigroups) : hasOwnProperty(semigroups, j)} |->
     combine(GetProperty(semigroups, k), that[k], self[k])]

tuple(semigroups) == [tag |-> "tuple", semigroups |-> semigroups]
tuple_combine_flipped(semigroups, that, self) ==
  [i \in 1..Len(semigroups) |-> combine(semigroups[i], self[i], that[i])]
tuple_combine(semigroups, that, self) ==
  [i \in 1..Len(semigroups) |-> combine(semigroups[i], that[i], self[i])]

intercalate(separator, S) == [tag |-> "intercalate", separator |-> separator, S |-> S]
intercalate_combine_separatorLast(separator, S, that, self) ==
  combineMany(S, ArrayOf(<<that, separator>>), self)
intercalate_combine_noSeparator(separator, S, that, self) ==
  combineMany(S, ArrayOf(<<that>>), self)
intercalate_combine(separator, S, that, self) ==
  combineMany(S, ArrayOf(<<separator, that>>), self)

first == [tag |-> "first"]
first_combine(that, self) == Call(identity, self)
first_combineMany(collection, self) == Call(identity, self)

last == [tag |-> "last"]
last_combine(second, self) == second
RECURSIVE last_loop(_, _)
last_loop(items, a) == IF items = <<>> THEN a ELSE last_loop(Tail(items), Head(items))
last_combineMany(collection, self) == last_loop(Iterate(collection), self)

imap(to, from, S) == [tag |-> "imap", to |-> to, from |-> from, S |-> S]
imap_combine(to, from, S, that, self) ==
  Call(to, combine(S, Call(from, that), Call(from, self)))
imap_combineMany_arrayOnly(to, from, S, collection, self) ==
  Call(to,
       combineMany(S,
                   Array_map(IF Array_isArray(collection) THEN collection
                             ELSE ArrayOf(<<>>), from),
                   Call(from, self)))
imap_combineMany(to, from, S, collection, self) ==
  Call(to,
       combineMany(S,
                   Array_map(IF Array_isArray(collection) THEN collection
                             ELSE Array_from(collection), from),
                   Call(from, self)))

combine(S, that, self) ==
  CASE S.tag = "fromCombine" -> fromCombine_combine(S.combine, that, self)
    [] S.tag = "min" -> min_combine(S.O, that, self)
    [] S.tag = "max" -> max_combine(S.O, that, self)
    [] S.tag = "constant" -> constant_combine(S.a, that, self)
    [] S.tag = "reverse" -> reverse_combine(S.S, that, self)
    [] S.tag = "struct" -> struct_combine(S.semigroups, that, self)
    [] S.tag = "tuple" -> tuple_combine(S.semigroups, that, self)
    [] S.tag = "intercalate" -> intercalate_combine(S.separator, S.S, that, self)
    [] S.tag = "first" -> first_combine(that, self)
    [] S.tag = "last" -> last_combine(that, self)
    [] S.tag = "imap" -> imap_combine(S.to, S.from, S.S, that, self)

combineMany(S, collection, self) ==
  CASE S.tag \in {"fromCombine", "min", "max", "struct", "tuple", "intercalate"} ->
         fromCombine_combineMany(S, collection, self)
    [] S.tag = "constant" -> constant_combineMany(S.a, collection, self)
    [] S.tag = "reverse" -> reverse_combineMany(S.S, collection, self)
    [] S.tag = "first" -> first_combineMany(collection, self)
    [] S.tag = "last" -> last_combineMany(collection, self)
    [] S.tag = "imap" -> imap_combineMany(S.to, S.from, S.S, collection, self)

\* the SemiProduct and Product instances of Semigroup
SemiProduct_product_swapped(that, self) == tuple(<<that, self>>)
SemiProduct_product(that, self) == tuple(<<self, that>>)
SemiProduct_productMany(collection, self) == tuple(<<self>> \o Iterate(collection))
Product_of(a) == constant(a)
Product_productAll(collection) == tuple(Iterate(collection))


(***************************************************************************)
(* Covariant.ts.  A `map` is named by the container it maps over; the      *)
(* containers are the ReadonlyArray and the Option of the test suite.      *)
(***************************************************************************)
none == [_tag |-> "None"]
some(a) == [_tag |-> "Some", value |-> a]

ReadonlyArray_map(f, self) == [i \in 1..Len(self) |-> Call(f, self[i])]
Option_map(f, self) == IF self._tag = "None" THEN none ELSE some(Call(f, self.value))

Covariant_map_apply(map, f, self) ==
  CASE map = "ReadonlyArray" -> ReadonlyArray_map(f, self)
    [] map = "Option" -> Option_map(f, self)

\* F.map(f): the function self => ... that map returns for f
Covariant_map(map, f) == [tag |-> "map", map |-> map, f |-> f]

mapComposition_dropsFunction(F, G, f) == Covariant_map(F.map, Covariant_map(G.map, identity))
mapComposition(F, G, f) == Covariant_map(F.map, Covariant_map(G.map, f))

Covariant_imap_mapsFrom(map, to, from) == Covariant_map(map, from)
Covariant_imap(map, to, from) == Covariant_map(map, to)

make(map) == [map |-> map, imap |-> [tag |-> "Covariant.imap", map |-> map]]

\* instance.imap(to, from)
Call_imap(instance, to, from) == Covariant_imap(instance.imap.map, to, from)

(***************************************************************************)
(* test/data/Predicate.ts.  A value is known by its typeof; reading an     *)
(* array past its end gives undefined.                                     *)
(***************************************************************************)
undefined == [typeof |-> "undefined"]
Values == {[typeof |-> "string"], [typeof |-> "number"], undefined}
At(array, i) == IF i + 1 \in 1..Len(array) THEN array[i + 1] ELSE undefined

isString == [tag |-> "isString"]
isNumber == [tag |-> "isNumber"]
Predicate_of(a) == [tag |-> "of"]

\* predicate(u)
Test(predicate, u) ==
  CASE predicate.tag = "isString" -> u.typeof = "string"
    [] predicate.tag = "isNumber" -> u.typeof = "number"
    [] predicate.tag = "of" -> TRUE

\* product(that)(self) applied to `as`
Predicate_product(that, self, as) == Test(self, At(as, 0)) /\ Test(that, At(as, 1))

\* for (let i = 0; i < predicates.length; i++) if (predicates[i](values[i]) === false) return false
RECURSIVE Predicate_loop(_, _, _)
Predicate_loop(predicates, values, i) ==
  IF ~(i < Len(predicates)) THEN TRUE
  ELSE IF Test(predicates[i + 1], At(values, i)) = FALSE THEN FALSE
  ELSE Predicate_loop(predicates, values, i + 1)

\* productMany(collection)(self) applied to `as`
Predicate_productMany_untailed(collection, self, as) ==
  LET head == At(as, 0)
  IN  IF Test(self, head) = FALSE THEN FALSE
      ELSE Predicate_loop(Array_from(collection).items, as, 0)
Predicate_productMany(collection, self, as) ==
  LET head == At(as, 0)
      tail == SubSeq(as, 2, Len(as))
  IN  IF Test(self, head) = FALSE THEN FALSE
      ELSE Predicate_loop(Array_from(collection).items, tail, 0)

\* productAll(collection) applied to `as`
Predicate_productAll(collection, as) ==
  Predicate_loop(Array_from(collection).items, as, 0)

(***************************************************************************)
(* Application of a function value.                                        *)
(***************************************************************************)
Call(fn, x) ==
  CASE fn.tag = "identity" -> x
    [] fn.tag = "wrap" -> <<x>>
    [] fn.tag = "unwrap" -> x[1]
    [] fn.tag = "a" -> x.a
    [] fn.tag = "fst" -> x[1]
    [] fn.tag = "snd" -> x[2]
    [] fn.tag = "table" -> fn.graph[x]
    [] fn.tag = "compose" -> Call(fn.g, Call(fn.f, x))
    [] fn.tag = "map" -> Covariant_map_apply(fn.map, fn.f, x)

(***************************************************************************)
(* Objects.  Arrays, Sets and records are objects of a heap, known by      *)
(* reference; strings are primitives.  An operation on the heap returns    *)
(* the heap it leaves and the value it yields.                             *)
(***************************************************************************)
Prim(s) == [ref |-> 0, prim |-> s]
Ref(n) == [ref |-> n, prim |-> ""]
Object(kind, keys, items) == [kind |-> kind, keys |-> keys, items |-> items]
Yield(heap, value) == [heap |-> heap, value |-> value]
New(heap, object) == Yield(Append(heap, object), Ref(Len(heap) + 1))

IndexOf(keys, k) == CHOOSE i \in 1..Len(keys) : keys[i] = k
HasKey(object, k) == \E i \in 1..Len(object.keys) : object.keys[i] = k
\* o[k]
Get(heap, o, k) == heap[o.ref].items[IndexOf(heap[o.ref].keys, k)]
\* array[i]
Element(heap, array, i) == heap[array.ref].items[i + 1]
\* o[k] = v
Put(heap, o, k, v) ==
  LET object == heap[o.ref]
  IN  [heap EXCEPT ![o.ref] =
         IF HasKey(object, k)
         THEN [object EXCEPT !.items[IndexOf(object.keys, k)] = v]
         ELSE Object(object.kind, Append(object.keys, k), Append(object.items, v))]

\* Object.assign(target, ...sources): the own properties of each source in turn
RECURSIVE Object_assign_copy(_, _, _, _)
Object_assign_copy(heap, target, source, i) ==
  IF i > Len(heap[source.ref].keys) THEN heap
  ELSE Object_assign_copy(Put(heap, target, heap[source.ref].keys[i], heap[source.ref].items[i]),
                          target, source, i + 1)
RECURSIVE Object_assign(_, _, _)
Object_assign(heap, target, sources) ==
  IF sources = <<>> THEN Yield(heap, target)
  ELSE Object_assign(Object_assign_copy(heap, target, Head(sources), 1), target, Tail(sources))

RECURSIVE Heap_Call(_, _, _), Heap_combine(_, _, _, _), Heap_combineMany(_, _, _, _)

Heap_Array_isArray(heap, collection) == heap[collection.ref].kind = "Array"
Heap_Array_from_noCopy(heap, collection) == Yield(heap, collection)
Heap_Array_from(heap, collection) == New(heap, Object("Array", <<>>, heap[collection.ref].items))
\* array.reverse() reverses the array in place and returns it
Heap_Array_reverse(heap, array) ==
  LET items == heap[array.ref].items
  IN  Yield([heap EXCEPT ![array.ref].items = [i \in 1..Len(items) |-> items[Len(items) + 1 - i]]],
            array)
Heap_Array_slice(heap, array, start) ==
  New(heap, Object("Array", <<>>, SubSeq(heap[array.ref].items, start + 1, Len(heap[array.ref].items))))
RECURSIVE Heap_Array_map_loop(_, _, _, _, _)
Heap_Array_map_loop(heap, array, fn, i, mapped) ==
  IF ~(i < Len(heap[array.ref].items)) THEN New(heap, Object("Array", <<>>, mapped))
  ELSE LET called == Heap_Call(heap, fn, Element(heap, array, i))
       IN  Heap_Array_map_loop(called.heap, array, fn, i + 1, Append(mapped, called.value))
Heap_Array_map(heap, array, fn) == Heap_Array_map_loop(heap, array, fn, 0, <<>>)

\* Semigroup.ts on the heap
Heap_string_combine(heap, that, self) == Yield(heap, Prim(self.prim \o that.prim))

RECURSIVE Heap_fromCombine_loop(_, _, _, _, _)
Heap_fromCombine_loop(heap, S, collection, i, acc) ==
  IF ~(i < Len(heap[collection.ref].items)) THEN Yield(heap, acc)
  ELSE LET next == Heap_combine(heap, S, Element(heap, collection, i), acc)
       IN  Heap_fromCombine_loop(next.heap, S, collection, i + 1, next.value)
Heap_fromCombine_combineMany(heap, S, collection, self) ==
  Heap_fromCombine_loop(heap, S, collection, 0, self)

Heap_reverse_combineMany(heap, S, collection, self) ==
  LET from == Heap_Array_from(heap, collection)
      reversed == Heap_Array_reverse(from.heap, from.value)
  IN  IF Len(reversed.heap[reversed.value.ref].items) > 0
      THEN LET slice == Heap_Array_slice(reversed.heap, reversed.value, 1)
               rest == Heap_combineMany(slice.heap, S, slice.value,
                                        Element(slice.heap, reversed.value, 0))
           IN  Heap_combine(rest.heap, S, self, rest.value)
      ELSE Yield(reversed.heap, self)

RECURSIVE Heap_struct_loop(_, _, _, _, _, _)
Heap_struct_loop(heap, semigroups, ks, that, self, r) ==
  IF ks = {} THEN Yield(heap, r)
  ELSE LET k == CHOOSE j \in ks : TRUE
       IN  IF hasOwnProperty(semigroups, k)
           THEN LET combined == Heap_combine(heap, GetProperty(semigroups, k),
                                             Get(heap, that, k), Get(heap, self, k))
                IN  Heap_struct_loop(Put(combined.heap, r, k, combined.value),
                                     semigroups, ks \ {k}, that, self, r)
           ELSE Heap_struct_loop(heap, semigroups, ks \ {k}, that, self, r)
Heap_struct_combine(heap, semigroups, that, self) ==
  LET r == New(heap, Object("Object", <<>>, <<>>))
  IN  Heap_struct_loop(r.heap, semigroups, ForIn(semigroups), that, self, r.value)

RECURSIVE Heap_tuple_loop(_, _, _, _, _, _)
Heap_tuple_loop(heap, semigroups, i, that, self, mapped) ==
  IF ~(i < Len(semigroups)) THEN New(heap, Object("Array", <<>>, mapped))
  ELSE LET combined == Heap_combine(heap, semigroups[i + 1],
                                    Element(heap, that, i), Element(heap, self, i))
       IN  Heap_tuple_loop(combined.heap, semigroups, i + 1, that, self,
                           Append(mapped, combined.value))
Heap_tuple_combine(heap, semigroups, that, self) ==
  Heap_tuple_loop(heap, semigroups, 0, that, self, <<>>)

Heap_first_combine(heap, that, self) == Yield(heap, self)
Heap_first_combineMany(heap, collection, self) == Yield(heap, self)

Heap_last_combine(heap, second, self) == Yield(heap, second)
RECURSIVE Heap_last_loop(_, _, _, _)
Heap_last_loop(heap, collection, i, a) ==
  IF ~(i < Len(heap[collection.ref].items)) THEN Yield(heap, a)
  ELSE Heap_last_loop(heap, collection, i + 1, Element(heap, collection, i))
Heap_last_combineMany(heap, collection, self) == Heap_last_loop(heap, collection, 0, self)

Heap_imap_combineMany(heap, to, from, S, collection, self) ==
  LET array == IF Heap_Array_isArray(heap, collection) THEN Yield(heap, collection)
               ELSE Heap_Array_from(heap, collection)
      mapped == Heap_Array_map(array.heap, array.value, from)
      fromSelf == Heap_Call(mapped.heap, from, self)
      combined == Heap_combineMany(fromSelf.heap, S, mapped.value, fromSelf.value)
  IN  Heap_Call(combined.heap, to, combined.value)

Heap_combine(heap, S, that, self) ==
  CASE S.tag = "fromCombine" -> Heap_string_combine(heap, that, self)
    [] S.tag = "struct" -> Heap_struct_combine(heap, S.semigroups, that, self)
    [] S.tag = "tuple" -> Heap_tuple_combine(heap, S.semigroups, that, self)
    [] S.tag = "first" -> Heap_first_combine(heap, that, self)
    [] S.tag = "last" -> Heap_last_combine(heap, that, self)

Heap_combineMany(heap, S, collection, self) ==
  CASE S.tag \in {"fromCombine", "struct", "tuple"} ->
         Heap_fromCombine_combineMany(heap, S, collection, self)
    [] S.tag = "reverse" -> Heap_reverse_combineMany(heap, S.S, collection, self)
    [] S.tag = "first" -> Heap_first_combineMany(heap, collection, self)
    [] S.tag = "last" -> Heap_last_combineMany(heap, collection, self)
    [] S.tag = "imap" -> Heap_imap_combineMany(heap, S.to, S.from, S.S, collection, self)

\* Covariant.ts on the heap: a => Object.assign({}, a, { [name]: f(a) })
let_assign(heap, name, f, a) ==
  LET target == New(heap, Object("Object", <<>>, <<>>))
      fa == Heap_Call(target.heap, f, a)
      source == New(fa.heap, Object("Object", <<name>>, <<fa.value>>))
  IN  Object_assign(source.heap, target.value, <<a, source.value>>)

Heap_Call(heap, fn, x) ==
  CASE fn.tag = "identity" -> Yield(heap, x)
    [] fn.tag = "wrap" -> New(heap, Object("Array", <<>>, <<x>>))
    [] fn.tag = "unwrap" -> Yield(heap, Element(heap, x, 0))
    [] fn.tag = "a" -> Yield(heap, Get(heap, x, "a"))
    [] fn.tag = "let" -> let_assign(heap, fn.name, fn.f, x)

Heap_ReadonlyArray_map(heap, f, self) == Heap_Array_map(heap, self, f)

\* let(F)(name, f)(self)
let_(heap, F, name, f, self) ==
  CASE F.map = "ReadonlyArray" ->
         Heap_ReadonlyArray_map(heap, [tag |-> "let", name |-> name, f |-> f], self)

(***************************************************************************)
(* The instances the calls are made on, by the type they combine.          *)
(***************************************************************************)
byA == contramap(numberOrder, [tag |-> "a"])

Family == {"string", "number", "item", "tuple", "struct", "wrapped"}

StringSemigroups ==
  { StringSemigroup, constant("-"), first, last,
    reverse(StringSemigroup), intercalate("|", StringSemigroup),
    reverse(intercalate("|", StringSemigroup)), intercalate("|", reverse(StringSemigroup)),
    reverse(reverse(StringSemigroup)), reverse(constant("-")), reverse(first), reverse(last),
    intercalate("|", constant("-")), intercalate("|", last),
    imap(identity, identity, StringSemigroup) }

Semigroups(family) ==
  CASE family = "string" -> StringSemigroups
    [] family = "number" ->
         { SemigroupSum, min(numberOrder), max(numberOrder), constant(1), first, last,
           reverse(min(numberOrder)), reverse(SemigroupSum) }
    [] family = "item" ->
         { min(byA), max(byA), reverse(min(byA)), reverse(max(byA)), first, last }
    [] family = "tuple" ->
         { tuple(<<StringSemigroup, SemigroupSum>>),
           tuple(<<reverse(StringSemigroup), min(numberOrder)>>),
           tuple(<<constant("-"), last>>),
           reverse(tuple(<<StringSemigroup, SemigroupSum>>)) }
    [] family = "struct" ->
         { struct([own |-> [name |-> StringSemigroup, age |-> SemigroupSum],
                   inherited |-> [extra |-> first]]),
           struct([own |-> [name |-> intercalate("|", StringSemigroup), age |-> max(numberOrder)],
                           inherited |-> <<>>]),
           struct([own |-> [name |-> constant("-"), age |-> last],
                   inherited |-> <<>>]) }
    [] family = "wrapped" ->
         { imap(wrap, unwrap, S) :
             S \in {StringSemigroup, constant("-"), last, reverse(StringSemigroup),
                    intercalate("|", StringSemigroup)} }

Carrier(family) ==
  CASE family = "string" -> Str
    [] family = "number" -> Num
    [] family = "item" -> Item
    [] family = "tuple" -> Name \X Num
    [] family = "struct" -> [name : Name, age : Num]
    [] family = "wrapped" -> {<<s>> : s \in Str}

\* the tests hand combineMany an Array, and a Set where the elements are strings
Collections(family) ==
  IF family \in {"string", "wrapped"}
  THEN Arrays(Carrier(family)) \cup Sets(Carrier(family))
  ELSE Arrays(Carrier(family))


compose(g, f) == [tag |-> "compose", g |-> g, f |-> f]
table(graph) == [tag |-> "table", graph |-> graph]

\* the functions handed to map, over the elements 1 and 2
Functions ==
  { identity,
    table([n \in Key |-> 3 - n]),
    table([n \in Key |-> 1]) }

Maps == {"ReadonlyArray", "Option"}
Covariants == {make(map) : map \in Maps}

\* the containers of elements of D
Kind(map, D) ==
  CASE map = "ReadonlyArray" -> SeqsUpTo(D, MaxNest)
    [] map = "Option" -> {none} \cup {some(a) : a \in D}

\* the instances the products are built from, and the tuples of operands
ProductSemigroups == {StringSemigroup, reverse(StringSemigroup), first}
Tuples(D, n) == {t \in SeqsUpTo(D, n) : Len(t) = n}
Instances(D) ==
  {ArrayOf(items) : items \in SeqsUpTo(D, MaxArity)} \cup
  {SetOf(items) : items \in SeqsUpTo(D, MaxArity)}

\* the orders on pairs [number, string] that are combined
sortByFst == contramap(numberOrder, [tag |-> "fst"])
sortBySnd == contramap(stringOrder, [tag |-> "snd"])
Orders == {sortByFst, sortBySnd, getMonoid_empty, Order_of(<<1, "a">>)}

Predicates == {isString, isNumber, Predicate_of(undefined)}
Inputs == SeqsUpTo(Values, MaxArity + 1)

\* the instances called on the heap, by the elements they combine: strings,
\* pairs, records {a, b} and wrapped strings [s]
HeapFamily == {"string", "tuple", "struct", "wrapped"}
HeapSemigroups(family) ==
  CASE family = "string" -> {StringSemigroup, first, last}
    [] family = "tuple" -> {tuple(<<StringSemigroup, last>>), first, last}
    [] family = "struct" ->
         { struct([own |-> [a |-> StringSemigroup, b |-> first], inherited |-> [extra |-> last]]),
           struct([own |-> [a |-> last, b |-> StringSemigroup], inherited |-> <<>>]),
           last }
    [] family = "wrapped" -> {imap(wrap, unwrap, S) : S \in {StringSemigroup, last}}
HeapCarrier(family) ==
  CASE family = "string" -> {Prim(x) : x \in Name}
    [] family = "tuple" -> {Object("Array", <<>>, <<Prim(x), Prim(y)>>) : x \in Name, y \in Name}
    [] family = "struct" ->
         {Object("Object", <<"a", "b">>, <<Prim(x), Prim(y)>>) : x \in Name, y \in Name}
    [] family = "wrapped" -> {Object("Array", <<>>, <<Prim(x)>>) : x \in Name}

\* a string is a value; a pair, a record or a wrapped string is a new object
Place(heap, family, a) == IF family = "string" THEN Yield(heap, a) ELSE New(heap, a)
RECURSIVE PlaceAll(_, _, _, _)
PlaceAll(heap, family, elements, placed) ==
  IF elements = <<>> THEN [heap |-> heap, items |-> placed]
  ELSE LET a == Place(heap, family, Head(elements))
       IN  PlaceAll(a.heap, family, Tail(elements), Append(placed, a.value))

\* a Set holds a string once
IsCollection(family, kind, elements) ==
  kind = "Set" /\ family = "string" =>
    \A i \in 1..Len(elements), j \in 1..Len(elements) : elements[i] = elements[j] => i = j

\* the heap before combineMany(collection)(self)
BeforeCombineMany(family, kind, elements, a) ==
  LET placed == PlaceAll(<<>>, family, elements, <<>>)
      collection == New(placed.heap, Object(kind, <<>>, placed.items))
      self == Place(collection.heap, family, a)
  IN  [heap |-> self.heap, collection |-> collection.value, self |-> self.value]

\* the heap before combine(that)(self)
BeforeCombine(family, a, b) ==
  LET self == Place(<<>>, family, a)
      that == Place(self.heap, family, b)
  IN  [heap |-> that.heap, self |-> self.value, that |-> that.value]

HeapImaps(family) ==
  IF family = "wrapped" THEN HeapSemigroups("wrapped")
  ELSE {imap(identity, identity, T) : T \in HeapSemigroups(family)}

(***************************************************************************)
(* The calls.                                                              *)
(***************************************************************************)
Init ==
  /\ op = "none"
  /\ type = "none"
  /\ args = Box("none", <<>>)
  /\ out = Box("none", <<>>)

Combine ==
  /\ op = "none"
  /\ \E family \in Family :
    \E S \in Semigroups(family), that \in Carrier(family), self \in Carrier(family) :
      /\ op' = "combine"
      /\ type' = family
      /\ args' = Box(family, [S |-> S, that |-> that, self |-> self])
      /\ out' = Box(family, combine(S, that, self))

CombineMany ==
  /\ op = "none"
  /\ \E family \in Family :
    \E S \in Semigroups(family), collection \in Collections(family),
       self \in Carrier(family) :
      /\ op' = "combineMany"
      /\ type' = family
      /\ args' = Box(family, [S |-> S, collection |-> collection, self |-> self])
      /\ out' = Box(family, combineMany(S, collection, self))

\* combine applied to three operands, grouped from the left and from the right
Associate ==
  /\ op = "none"
  /\ \E family \in Family :
    \E S \in Semigroups(family), a \in Carrier(family), b \in Carrier(family),
       c \in Carrier(family) :
      /\ op' = "associate"
      /\ type' = family
      /\ args' = Box(family, [S |-> S, a |-> a, b |-> b, c |-> c])
      /\ out' = Box(family, [left |-> combine(S, c, combine(S, b, a)),
                              right |-> combine(S, combine(S, c, b), a)])

\* mapComposition(F, G) applied to f, to identity, to g o f, and to f then g
MapComposition ==
  /\ op = "none"
  /\ \E F \in Covariants, G \in Covariants :
    \E f \in Functions, g \in Functions, self \in Kind(F.map, Kind(G.map, Key)) :
      LET nested == F.map \o "<" \o G.map \o ">"
      IN  /\ op' = "mapComposition"
          /\ type' = nested
          /\ args' = Box(nested, [F |-> F, G |-> G, f |-> f, g |-> g, self |-> self])
          /\ out' = Box(nested,
                        [mapped |-> Call(mapComposition(F, G, f), self),
                         identity |-> Call(mapComposition(F, G, identity), self),
                         composed |-> Call(mapComposition(F, G, compose(g, f)), self),
                         sequential |-> Call(mapComposition(F, G, g),
                                             Call(mapComposition(F, G, f), self))])

\* make(map), and the instance's map and imap applied to a container
Make ==
  /\ op = "none"
  /\ \E map \in Maps :
    \E to \in Functions, from \in Functions, self \in Kind(map, Key) :
      LET instance == make(map)
      IN  /\ op' = "make"
          /\ type' = map
          /\ args' = Box(map, [map |-> map, to |-> to, from |-> from, self |-> self])
          /\ out' = Box(map,
                        [instance |-> instance,
                         mapped |-> Call(Covariant_map(instance.map, to), self),
                         imapped |-> Call(Call_imap(instance, to, from), self)])

\* SemiProduct.product(that)(self) and its combine, next to productMany([that])(self)
Product ==
  /\ op = "none"
  /\ \E self \in ProductSemigroups, that \in ProductSemigroups :
    \E x \in Tuples(Name, 2), y \in Tuples(Name, 2) :
      /\ op' = "product"
      /\ type' = "product"
      /\ args' = Box("product", [self |-> self, that |-> that, x |-> x, y |-> y])
      /\ out' = Box("product",
                    [instance |-> SemiProduct_product(that, self),
                     combined |-> combine(SemiProduct_product(that, self), y, x),
                     many |-> SemiProduct_productMany(ArrayOf(<<that>>), self)])

\* SemiProduct.productMany(collection)(self) and its combine, next to
\* productAll([self, ...collection])
ProductMany ==
  /\ op = "none"
  /\ \E self \in ProductSemigroups, collection \in Instances(ProductSemigroups) :
    \E x \in Tuples(Name, 1 + Len(Iterate(collection))),
       y \in Tuples(Name, 1 + Len(Iterate(collection))) :
      /\ op' = "productMany"
      /\ type' = "productMany"
      /\ args' = Box("productMany",
                     [self |-> self, collection |-> collection, x |-> x, y |-> y])
      /\ out' = Box("productMany",
                    [instance |-> SemiProduct_productMany(collection, self),
                     combined |-> combine(SemiProduct_productMany(collection, self), y, x),
                     all |-> Product_productAll(ArrayOf(<<self>> \o Iterate(collection)))])

\* Product.productAll(collection) and its combine
ProductAll ==
  /\ op = "none"
  /\ \E collection \in Instances(ProductSemigroups) :
    \E x \in Tuples(Name, Len(Iterate(collection))),
       y \in Tuples(Name, Len(Iterate(collection))) :
      /\ op' = "productAll"
      /\ type' = "productAll"
      /\ args' = Box("productAll", [collection |-> collection, x |-> x, y |-> y])
      /\ out' = Box("productAll",
                    [instance |-> Product_productAll(collection),
                     combined |-> combine(Product_productAll(collection), y, x)])

\* Order.getSemigroup().combine(that)(self) applied to two values
OrderCombine ==
  /\ op = "none"
  /\ \E self \in Orders, that \in Orders :
    \E a1 \in Num \X Name, a2 \in Num \X Name :
      /\ op' = "Order.combine"
      /\ type' = "Order"
      /\ args' = Box("Order", [self |-> self, that |-> that, a1 |-> a1, a2 |-> a2])
      /\ out' = Box("Order", compare(getSemigroup_combine(that, self), a2, a1))

\* Order.getSemigroup().combineMany(collection)(self) applied to two values
OrderCombineMany ==
  /\ op = "none"
  /\ \E self \in Orders, collection \in Instances(Orders) :
    \E a1 \in Num \X Name, a2 \in Num \X Name :
      /\ op' = "Order.combineMany"
      /\ type' = "Order"
      /\ args' = Box("Order",
                     [self |-> self, collection |-> collection, a1 |-> a1, a2 |-> a2])
      /\ out' = Box("Order", compare(getSemigroup_combineMany(collection, self), a2, a1))

\* Predicate: product(that)(self) applied to an input
PredicateProduct ==
  /\ op = "none"
  /\ \E self \in Predicates, that \in Predicates, as \in Inputs :
      /\ op' = "Predicate.product"
      /\ type' = "Predicate"
      /\ args' = Box("Predicate", [self |-> self, that |-> that, as |-> as])
      /\ out' = Box("Predicate", [accepts |-> Predicate_product(that, self, as)])

\* Predicate: productMany(collection)(self) applied to an input, next to
\* productAll([self, ...collection])
PredicateProductMany ==
  /\ op = "none"
  /\ \E self \in Predicates, collection \in Instances(Predicates), as \in Inputs :
      /\ op' = "Predicate.productMany"
      /\ type' = "Predicate"
      /\ args' = Box("Predicate", [self |-> self, collection |-> collection, as |-> as])
      /\ out' = Box("Predicate",
                    [accepts |-> Predicate_productMany(collection, self, as),
                     all |-> Predicate_productAll(ArrayOf(<<self>> \o Iterate(collection)), as)])

\* Predicate: productAll(collection) applied to an input, next to of(a)
PredicateProductAll ==
  /\ op = "none"
  /\ \E collection \in Instances(Predicates), as \in Inputs :
      /\ op' = "Predicate.productAll"
      /\ type' = "Predicate"
      /\ args' = Box("Predicate", [collection |-> collection, as |-> as])
      /\ out' = Box("Predicate",
                    [accepts |-> Predicate_productAll(collection, as),
                     of |-> Test(Predicate_of(undefined), as)])

\* reverse(S).combineMany(collection)(self) on the heap
ReverseCombineMany ==
  /\ op = "none"
  /\ \E family \in {"string", "tuple", "struct"}, kind \in {"Array", "Set"} :
      \E S \in {reverse(T) : T \in HeapSemigroups(family)}, a \in HeapCarrier(family),
         elements \in SeqsUpTo(HeapCarrier(family), MaxLen) :
        LET before == BeforeCombineMany(family, kind, elements, a)
        IN  /\ IsCollection(family, kind, elements)
            /\ op' = "reverse.combineMany"
            /\ type' = "HeapCombineMany"
            /\ args' = Box("HeapCombineMany",
                           [heap |-> before.heap, S |-> S,
                            collection |-> before.collection, self |-> before.self])
            /\ out' = Box("HeapCombineMany",
                          Heap_combineMany(before.heap, S, before.collection, before.self))

\* imap(to, from)(S).combineMany(collection)(self) on the heap
ImapCombineMany ==
  /\ op = "none"
  /\ \E family \in {"tuple", "wrapped"}, kind \in {"Array", "Set"} :
      \E S \in HeapImaps(family), a \in HeapCarrier(family),
         elements \in SeqsUpTo(HeapCarrier(family), MaxLen) :
        LET before == BeforeCombineMany(family, kind, elements, a)
        IN  /\ IsCollection(family, kind, elements)
            /\ op' = "imap.combineMany"
            /\ type' = "HeapCombineMany"
            /\ args' = Box("HeapCombineMany",
                           [heap |-> before.heap, S |-> S,
                            collection |-> before.collection, self |-> before.self])
            /\ out' = Box("HeapCombineMany",
                          Heap_combineMany(before.heap, S, before.collection, before.self))

\* last().combineMany(collection)(self) on the heap
LastCombineMany ==
  /\ op = "none"
  /\ \E family \in HeapFamily, kind \in {"Array", "Set"} :
      \E S \in {last}, a \in HeapCarrier(family),
         elements \in SeqsUpTo(HeapCarrier(family), MaxLen) :
        LET before == BeforeCombineMany(family, kind, elements, a)
        IN  /\ IsCollection(family, kind, elements)
            /\ op' = "last.combineMany"
            /\ type' = "HeapCombineMany"
            /\ args' = Box("HeapCombineMany",
                           [heap |-> before.heap, S |-> S,
                            collection |-> before.collection, self |-> before.self])
            /\ out' = Box("HeapCombineMany",
                          Heap_combineMany(before.heap, S, before.collection, before.self))

\* struct(semigroups).combine(that)(self) on the heap
StructCombine ==
  /\ op = "none"
  /\ \E S \in {T \in HeapSemigroups("struct") : T.tag = "struct"},
        a \in HeapCarrier("struct"), b \in HeapCarrier("struct") :
      LET before == BeforeCombine("struct", a, b)
      IN  /\ op' = "struct.combine"
          /\ type' = "HeapCombine"
          /\ args' = Box("HeapCombine",
                         [heap |-> before.heap, S |-> S,
                          that |-> before.that, self |-> before.self])
          /\ out' = Box("HeapCombine", Heap_combine(before.heap, S, before.that, before.self))

\* tuple(...semigroups).combine(that)(self) on the heap
TupleCombine ==
  /\ op = "none"
  /\ \E S \in {T \in HeapSemigroups("tuple") : T.tag = "tuple"},
        a \in HeapCarrier("tuple"), b \in HeapCarrier("tuple") :
      LET before == BeforeCombine("tuple", a, b)
      IN  /\ op' = "tuple.combine"
          /\ type' = "HeapCombine"
          /\ args' = Box("HeapCombine",
                         [heap |-> before.heap, S |-> S,
                          that |-> before.that, self |-> before.self])
          /\ out' = Box("HeapCombine", Heap_combine(before.heap, S, before.that, before.self))

\* let(F)(name, f)(self) on the heap, self an array of records {a, b}
Let ==
  /\ op = "none"
  /\ \E name \in {"c", "d"}, f \in {[tag |-> "a"], identity},
        elements \in SeqsUpTo(HeapCarrier("struct"), MaxLen) :
      LET placed == PlaceAll(<<>>, "struct", elements, <<>>)
          self == New(placed.heap, Object("Array", <<>>, placed.items))
      IN  /\ op' = "let"
          /\ type' = "HeapLet"
          /\ args' = Box("HeapLet", [heap |-> self.heap, name |-> name, f |-> f,
                                     self |-> self.value])
          /\ out' = Box("HeapLet", let_(self.heap, make("ReadonlyArray"), name, f, self.value))

Return ==
  /\ op # "none"
  /\ op' = "none"
  /\ type' = "none"
  /\ args' = Box("none", <<>>)
  /\ out' = Box("none", <<>>)

Next ==
  \/ Combine
  \/ CombineMany
  \/ Associate
  \/ MapComposition
  \/ Make
  \/ Product
  \/ ProductMany
  \/ ProductAll
  \/ OrderCombine
  \/ OrderCombineMany
  \/ PredicateProduct
  \/ PredicateProductMany
  \/ PredicateProductAll
  \/ ReverseCombineMany
  \/ ImapCombineMany
  \/ LastCombineMany
  \/ StructCombine
  \/ TupleCombine
  \/ Let
  \/ Return

Spec == Init /\ [][Next]_vars

(***************************************************************************)
(* Properties.                                                             *)
(***************************************************************************)
arg == args[type]
result == out[type]
xs == Iterate(arg.collection)

\* out := s; for each x of the sequence in order: out := combine(x)(out)
RECURSIVE LeftFold(_, _, _)
LeftFold(S, seq, s) ==
  IF seq = <<>> THEN s
  ELSE combine(S, seq[Len(seq)], LeftFold(S, SubSeq(seq, 1, Len(seq) - 1), s))

\* what combineMany of an empty collection returns for the start value s
RECURSIVE OnEmpty(_, _)
OnEmpty(S, s) ==
  CASE S.tag = "constant" -> S.a
    [] S.tag = "imap" -> Call(S.to, OnEmpty(S.S, Call(S.from, s)))
    [] OTHER -> s

\* C1 (as stated): for every constructed Semigroup, every start value s and
\* every finite sequence xs, the empty one included, combineMany(xs)(s)
\* equals the left fold of combine over xs starting from s.
C1_LeftFoldAlways ==
  op = "combineMany" => result = LeftFold(arg.S, xs, arg.self)

\* C1 (amended): for every constructed Semigroup and every non-empty xs,
\* combineMany(xs)(s) equals the left fold of combine over xs from s; for
\* the empty xs it returns s, except that constant(a) returns a and an imap
\* of S returns to(what S returns for from(s)).
C1_LeftFold ==
  op = "combineMany" =>
    /\ xs # <<>> => result = LeftFold(arg.S, xs, arg.self)
    /\ xs = <<>> => result = OnEmpty(arg.S, arg.self)

C1_Witness ==
  /\ op = "combineMany"
  /\ type = "string"
  /\ arg.S = reverse(intercalate("|", StringSemigroup))
  /\ arg.self = "a"
  /\ xs = <<"b", "c">>
  /\ result = "c|b|a"

\* C2: combine of every constructed Semigroup is associative:
\* combine(c)(combine(b)(a)) = combine(combine(c)(b))(a).
C2_Associative ==
  op = "associate" => result.left = result.right

C2_Witness ==
  /\ op = "associate"
  /\ type = "string"
  /\ arg.S = intercalate("|", StringSemigroup)
  /\ <<arg.a, arg.b, arg.c>> = <<"a", "b", "c">>
  /\ result.left = "a|b|c"

IsMinMax == op = "combine" /\ arg.S.tag \in {"min", "max"}
Tie == compare(arg.S.O, arg.that, arg.self) = 0

\* C3 (as stated): when the Order reports a tie, max returns the later
\* operand `that` and min returns the earlier operand `self`.
C3_TieMinEarlier ==
  IsMinMax /\ Tie =>
    /\ arg.S.tag = "max" => result = arg.that
    /\ arg.S.tag = "min" => result = arg.self

\* C3 (amended): when the Order reports a tie, both max and min return the
\* later operand `that`.
C3_TieLater ==
  IsMinMax /\ Tie => result = arg.that

C3_Witness ==
  /\ IsMinMax /\ Tie
  /\ arg.S.tag = "min"
  /\ arg.that # arg.self
  /\ result = arg.that

\* the elements s, x1, ..., xn and the last position holding a least
\* (sign = -1) or a greatest (sign = 1) one
Elements == <<arg.self>> \o xs
Extreme(O, seq, sign, i) ==
  \A j \in 1..Len(seq) : compare(O, seq[j], seq[i]) \in {sign, 0}
LastExtreme(O, seq, sign) ==
  CHOOSE i \in 1..Len(seq) :
    /\ Extreme(O, seq, sign, i)
    /\ \A j \in (i + 1)..Len(seq) : ~Extreme(O, seq, sign, j)

\* C4: min(O).combineMany(xs)(s) returns the minimal element of [s, ...xs]
\* that occurs last, max(O).combineMany(xs)(s) the maximal element that
\* occurs last, and both return s when xs is empty.
C4_LastExtreme ==
  op = "combineMany" /\ arg.S.tag \in {"min", "max"} =>
    /\ result = Elements[LastExtreme(arg.S.O, Elements,
                                  IF arg.S.tag = "min" THEN -1 ELSE 1)]
    /\ xs = <<>> => result = arg.self

C4_Witness ==
  /\ op = "combineMany"
  /\ type = "item"
  /\ arg.S = max(byA)
  /\ arg.self = [a |-> 1, id |-> 1]
  /\ xs = <<[a |-> 2, id |-> 1], [a |-> 2, id |-> 2]>>
  /\ result = [a |-> 2, id |-> 2]

\* the S-combination of the elements of seq taken from the last to the first
RECURSIVE CombineBackwards(_, _)
CombineBackwards(S, seq) ==
  IF Len(seq) = 1 THEN seq[1]
  ELSE combine(S, seq[1], CombineBackwards(S, Tail(seq)))

\* C5: reverse(S).combine(that)(self) = S.combine(self)(that), and
\* reverse(S).combineMany([x1..xn])(s) is the S-combination of xn, ..., x1, s;
\* with an empty collection it returns s.
C5_Reverse ==
  op \in {"combine", "combineMany"} /\ arg.S.tag = "reverse" =>
    /\ op = "combine" => result = combine(arg.S.S, arg.self, arg.that)
    /\ op = "combineMany" =>
         /\ result = CombineBackwards(arg.S.S, Elements)
         /\ xs = <<>> => result = arg.self

C5_Witness ==
  /\ op = "combineMany"
  /\ type = "string"
  /\ arg.S = reverse(StringSemigroup)
  /\ arg.self = "a"
  /\ xs = <<"b", "c", "d">>
  /\ result = "dcba"

\* the collection of the values found at field or position k of each
\* element of the collection
Project(collection, k) ==
  [kind |-> collection.kind,
   items |-> [i \in 1..Len(collection.items) |-> collection.items[i][k]]]

Components(S) ==
  IF S.tag = "struct" THEN S.semigroups.own ELSE S.semigroups

IsProduct == op \in {"combine", "combineMany"} /\ arg.S.tag \in {"struct", "tuple"}

CombinesComponents ==
  op = "combine" =>
    /\ DOMAIN result = DOMAIN Components(arg.S)
    /\ \A k \in DOMAIN Components(arg.S) :
         result[k] = combine(Components(arg.S)[k], arg.that[k], arg.self[k])

\* C6 (as stated): struct(...).combine returns a record with exactly the
\* own keys of `semigroups`, field k combined by semigroups[k]; tuple(...)
\* .combine returns n positions, position i combined by Si; and combineMany
\* over any collection equals the per-field / per-position combineMany of
\* the component semigroups.
C6_ComponentwiseAlways ==
  IsProduct =>
    /\ CombinesComponents
    /\ op = "combineMany" =>
         /\ DOMAIN result = DOMAIN Components(arg.S)
         /\ \A k \in DOMAIN Components(arg.S) :
              result[k] = combineMany(Components(arg.S)[k],
                                      Project(arg.collection, k), arg.self[k])

\* C6 (amended): as stated for combine; combineMany over a non-empty
\* collection equals the per-field / per-position combineMany of the
\* component semigroups, and over an empty collection it returns self.
C6_Componentwise ==
  IsProduct =>
    /\ CombinesComponents
    /\ op = "combineMany" /\ xs # <<>> =>
         /\ DOMAIN result = DOMAIN Components(arg.S)
         /\ \A k \in DOMAIN Components(arg.S) :
              result[k] = combineMany(Components(arg.S)[k],
                                      Project(arg.collection, k), arg.self[k])
    /\ op = "combineMany" /\ xs = <<>> => result = arg.self

C6_Witness ==
  /\ op = "combineMany"
  /\ type = "struct"
  /\ arg.S = struct([own |-> [name |-> StringSemigroup, age |-> SemigroupSum],
                     inherited |-> [extra |-> first]])
  /\ arg.self = [name |-> "a", age |-> 1]
  /\ xs = <<[name |-> "b", age |-> 2], [name |-> "a", age |-> 2]>>
  /\ result = [name |-> "aba", age |-> 5]

\* sep, x1, sep, x2, ..., sep, xn
Interleave(sep, seq) ==
  [i \in 1..(2 * Len(seq)) |-> IF i % 2 = 1 THEN sep ELSE seq[i \div 2]]

\* C7: intercalate(sep)(S).combine(that)(self) = S.combineMany([sep, that])(self)
\* = self <> sep <> that, and intercalate(sep)(S).combineMany([x1..xn])(s) =
\* s <> sep <> x1 <> ... <> sep <> xn, n separators; empty collection: s.
C7_Intercalate ==
  op \in {"combine", "combineMany"} /\ arg.S.tag = "intercalate" =>
    /\ op = "combine" =>
         /\ result = combineMany(arg.S.S, ArrayOf(<<arg.S.separator, arg.that>>), arg.self)
         /\ result = combine(arg.S.S, arg.that,
                             combine(arg.S.S, arg.S.separator, arg.self))
    /\ op = "combineMany" =>
         /\ result = LeftFold(arg.S.S, Interleave(arg.S.separator, xs), arg.self)
         /\ xs = <<>> => result = arg.self

C7_Witness ==
  /\ op = "combineMany"
  /\ type = "string"
  /\ arg.S = intercalate("|", StringSemigroup)
  /\ arg.self = "a"
  /\ xs = <<"b", "c", "d">>
  /\ result = "a|b|c|d"

Mapped(collection, fn) ==
  ArrayOf([i \in 1..Len(Iterate(collection)) |-> Call(fn, Iterate(collection)[i])])

\* C8: imap(to, from)(S).combine(that)(self) = to(S.combine(from(that))(from(self)));
\* imap(to, from)(S).combineMany(xs)(self) = to(S.combineMany(xs mapped through
\* from)(from(self))) for an Array and for any other iterable; hence
\* to(S.combineMany(as)(a)) = imap(to, from)(S).combineMany(as mapped through to)(to(a)).
C8_Imap ==
  op \in {"combine", "combineMany"} /\ arg.S.tag = "imap" =>
    LET to == arg.S.to
        from == arg.S.from
    IN  /\ op = "combine" =>
             result = Call(to, combine(arg.S.S, Call(from, arg.that), Call(from, arg.self)))
        /\ op = "combineMany" =>
             /\ result = Call(to, combineMany(arg.S.S, Mapped(arg.collection, from),
                                              Call(from, arg.self)))
             /\ Call(to, combineMany(arg.S.S, Mapped(arg.collection, from),
                                     Call(from, arg.self)))
                  = combineMany(arg.S, Mapped(Mapped(arg.collection, from), to),
                                Call(to, Call(from, arg.self)))

C8_Witness ==
  /\ op = "combineMany"
  /\ type = "wrapped"
  /\ arg.S = imap(wrap, unwrap, StringSemigroup)
  /\ arg.collection = SetOf(<< <<"b">>, <<"c">> >>)
  /\ arg.self = <<"a">>
  /\ result = <<"abc">>

\* the container `self` of kind `map` with h applied to each element
MapElements(map, h(_), self) ==
  CASE map = "ReadonlyArray" -> [i \in DOMAIN self |-> h(self[i])]
    [] map = "Option" -> IF self = none THEN none ELSE some(h(self.value))

\* C9: mapComposition(F, G)(f) is F.map(G.map(f)): it applies f to every
\* element of every inner container; mapComposition(F, G)(identity) leaves
\* the nested value unchanged, and mapComposition(F, G)(g o f) equals
\* mapComposition(F, G)(f) followed by mapComposition(F, G)(g).
C9_MapComposition ==
  op = "mapComposition" =>
    /\ result.mapped =
         MapElements(arg.F.map,
                     LAMBDA ga : MapElements(arg.G.map, LAMBDA a : Call(arg.f, a), ga),
                     arg.self)
    /\ result.mapped = Call(Covariant_map(arg.F.map, Covariant_map(arg.G.map, arg.f)), arg.self)
    /\ result.identity = arg.self
    /\ result.composed = result.sequential

C9_Witness ==
  /\ op = "mapComposition"
  /\ type = "ReadonlyArray<Option>"
  /\ arg.f = table([n \in Key |-> 1])
  /\ arg.g = table([n \in Key |-> 3 - n])
  /\ arg.self = <<some(2), none>>
  /\ result.mapped = <<some(1), none>>
  /\ result.composed = <<some(2), none>>

\* C10: the map of make(map) is the supplied map; its imap(to, from) is
\* map(to) whatever `from` is; so map(identity)(fa) = fa and
\* imap(identity, identity)(fa) = fa.
C10_Make ==
  op = "make" =>
    /\ result.instance.map = arg.map
    /\ result.mapped = Covariant_map_apply(arg.map, arg.to, arg.self)
    /\ result.imapped = Covariant_map_apply(arg.map, arg.to, arg.self)
    /\ arg.to = identity => result.mapped = arg.self
    /\ arg.to = identity /\ arg.from = identity => result.imapped = arg.self

C10_Witness ==
  /\ op = "make"
  /\ type = "ReadonlyArray"
  /\ arg.to = table([n \in Key |-> 1])
  /\ arg.from = table([n \in Key |-> 3 - n])
  /\ arg.self = <<2, 1>>
  /\ result.imapped = <<1, 1>>

\* the instances a product is built from, in the order of the positions
Positions ==
  CASE op = "product" -> <<arg.self, arg.that>>
    [] op = "productMany" -> <<arg.self>> \o Iterate(arg.collection)
    [] op = "productAll" -> Iterate(arg.collection)

\* C11: product(that)(self) combines position 0 with self and position 1
\* with that and equals productMany([that])(self); productMany(collection)
\* (self) combines positionwise with [self, ...collection] and equals
\* productAll([self, ...collection]); productAll(collection) combines
\* position i with collection[i], and for an empty collection its combine
\* returns the empty tuple.
C11_Products ==
  op \in {"product", "productMany", "productAll"} =>
    /\ Len(result.combined) = Len(Positions)
    /\ \A i \in 1..Len(Positions) :
         result.combined[i] = combine(Positions[i], arg.y[i], arg.x[i])
    /\ op = "product" => result.instance = result.many
    /\ op = "productMany" => result.instance = result.all
    /\ op = "productAll" /\ Iterate(arg.collection) = <<>> => result.combined = <<>>

C11_Witness ==
  /\ op = "productMany"
  /\ arg.self = StringSemigroup
  /\ arg.collection = ArrayOf(<<reverse(StringSemigroup), first>>)
  /\ arg.x = <<"a", "a", "a">>
  /\ arg.y = <<"b", "b", "b">>
  /\ result.combined = <<"ab", "ba", "a">>

By(O) == compare(O, arg.a2, arg.a1)
IsNeutral(O) == O.tag \in {"Order.empty", "Order.of"}

\* C12: the combined order combine(that)(self) compares by self and, only
\* when self reports 0, by that; combineMany(collection)(self) compares by
\* self and then by each order of the collection in sequence and returns
\* the first non-zero result, 0 if there is none; the monoid's empty, like
\* Product.of(a), returns 0 for every pair and is a left and right identity.
C12_Lexicographic ==
  /\ op = "Order.combine" =>
       /\ By(arg.self) # 0 => result = By(arg.self)
       /\ By(arg.self) = 0 => result = By(arg.that)
       /\ IsNeutral(arg.self) => By(arg.self) = 0 /\ result = By(arg.that)
       /\ IsNeutral(arg.that) => By(arg.that) = 0 /\ result = By(arg.self)
  /\ op = "Order.combineMany" =>
       LET orders == <<arg.self>> \o Iterate(arg.collection)
           decisive == {i \in 1..Len(orders) : By(orders[i]) # 0}
       IN  /\ decisive = {} => result = 0
           /\ decisive # {} =>
                result = By(orders[CHOOSE i \in decisive : \A j \in decisive : i <= j])

C12_Witness ==
  /\ op = "Order.combineMany"
  /\ arg.self = getMonoid_empty
  /\ arg.collection = ArrayOf(<<sortBySnd, sortByFst>>)
  /\ arg.a1 = <<2, "a">>
  /\ arg.a2 = <<1, "a">>
  /\ result = 1

\* C13: product(that)(self) accepts [a, b] iff self(a) and that(b);
\* productMany(collection)(self) accepts [head, ...tail] iff self(head) and
\* collection[i](tail[i]) for every index i of collection, and agrees with
\* productAll([self, ...collection]); productAll(collection) accepts `as`
\* iff collection[i](as[i]) for every i, so productAll of an empty
\* collection accepts every input, like of(a).
C13_Predicates ==
  /\ op = "Predicate.product" =>
       (result.accepts <=> Test(arg.self, At(arg.as, 0)) /\ Test(arg.that, At(arg.as, 1)))
  /\ op = "Predicate.productMany" =>
       /\ result.accepts <=>
            /\ Test(arg.self, At(arg.as, 0))
            /\ \A i \in 0..(Len(Iterate(arg.collection)) - 1) :
                 Test(Iterate(arg.collection)[i + 1], At(arg.as, i + 1))
       /\ result.accepts <=> result.all
  /\ op = "Predicate.productAll" =>
       /\ result.accepts <=>
            \A i \in 0..(Len(Iterate(arg.collection)) - 1) :
              Test(Iterate(arg.collection)[i + 1], At(arg.as, i))
       /\ Iterate(arg.collection) = <<>> => result.accepts /\ result.of

C13_Witness ==
  /\ op = "Predicate.productMany"
  /\ arg.self = isString
  /\ arg.collection = ArrayOf(<<isNumber, isString>>)
  /\ arg.as = <<[typeof |-> "string"], [typeof |-> "number"]>>
  /\ result.accepts = FALSE

\* the objects that exist before the call are the same after it
HeapTypes == {"HeapCombineMany", "HeapCombine", "HeapLet"}
Unmutated ==
  /\ Len(result.heap) >= Len(arg.heap)
  /\ \A n \in 1..Len(arg.heap) : result.heap[n] = arg.heap[n]
\* an object that did not exist before the call
IsFresh(v) == v.ref > Len(arg.heap)
input == arg.heap[arg.collection.ref].items

\* C14 as stated: after each of the six operations the inputs are unchanged
\* and the result is a freshly built value (a primitive has no identity and
\* counts as built).
C14_FreshAlways ==
  type \in HeapTypes =>
    /\ Unmutated
    /\ result.value.ref = 0 \/ IsFresh(result.value)

\* C14: after reverse(S).combineMany, imap(to, from)(S).combineMany,
\* last().combineMany, struct(...).combine, tuple(...).combine and let, every
\* object that existed before the call (the collection, its elements, self,
\* that, the contained records) is unchanged.  The record of struct.combine,
\* the tuple of tuple.combine, the container and the records of let, the
\* result of imap(to, from) when `to` builds one, and the result of
\* reverse(S) over a non-empty collection when S is a struct or a tuple, are
\* new objects; last().combineMany returns the last element of the
\* collection itself (self when it is empty), and reverse(S).combineMany of
\* an empty collection returns self itself.
C14_Unmutated ==
  type \in HeapTypes =>
    /\ Unmutated
    /\ op \in {"struct.combine", "tuple.combine"} => IsFresh(result.value)
    /\ op = "let" =>
         LET was == arg.heap[arg.self.ref].items
             now == result.heap[result.value.ref].items
         IN  /\ IsFresh(result.value)
             /\ Len(now) = Len(was)
             /\ \A i \in 1..Len(was) :
                  /\ IsFresh(now[i])
                  /\ \A k \in {"a", "b"} :
                       Get(result.heap, now[i], k) = Get(arg.heap, was[i], k)
                  /\ Get(result.heap, now[i], arg.name) =
                       (IF arg.f = identity THEN was[i] ELSE Get(arg.heap, was[i], "a"))
    /\ op = "last.combineMany" =>
         result.value = (IF input = <<>> THEN arg.self ELSE input[Len(input)])
    /\ op = "reverse.combineMany" /\ input = <<>> => result.value = arg.self
    /\ op = "reverse.combineMany" /\ input # <<>> /\ arg.S.S.tag \in {"struct", "tuple"} =>
         IsFresh(result.value)
    /\ op = "imap.combineMany" /\ arg.S.to = wrap => IsFresh(result.value)

C14_Witness ==
  /\ op = "reverse.combineMany"
  /\ arg.S.S.tag = "tuple"
  /\ Len(input) = 2
  /\ arg.heap[input[1].ref] # arg.heap[input[2].ref]
  /\ Len(result.heap) > Len(arg.heap)
  /\ IsFresh(result.value)
  /\ Unmutated

====
